---- MODULE Spec2Model ----
(***************************************************************************)
(* Weekly metrics aggregation of the dashboard:                            *)
(*   calculateWeeklyVelocity  (WeeklyVelocityGraph.tsx)                    *)
(*   calculateWeeklyVolume    (workout-shaped and Activity-shaped variant) *)
(* and the request queue of the backend (api_requests table, scheduler,    *)
(* queue processor and sync service of the database setup guide), and the  *)
(* requests of the dashboard panel: the SWR fetch with its database        *)
(* fallback, the request log, the download and the time range buttons.     *)
(*                                                                         *)
(* Encoding of JavaScript values                                           *)
(*   - instants are integers counting minutes since a Sunday 00:00 local   *)
(*     time (moment's default locale starts the week on Sunday);           *)
(*   - a field that is not on the object (undefined) is Absent;            *)
(*   - a timestamp string moment cannot parse is Invalid (a truthy value); *)
(*   - the number NaN is NaN; every arithmetic operator below treats it    *)
(*     as JavaScript does (all comparisons with NaN are false);            *)
(*   - other numbers are exact: distances of the velocity computation are  *)
(*     counted in 1/10000 km, durations in minutes (1/60 h), and values    *)
(*     that went through toFixed(2) in hundredths.  Floating point         *)
(*     representation error is not modelled.                               *)
(* The presentation-only fields of a row (year, weekNumber, dateRange) are *)
(* functions of `week` alone and are left out of the rows.                 *)
(***************************************************************************)
EXTENDS Integers, Sequences, FiniteSets, TLC

\* ---------------------------------------------------------------- bounds
MaxRecords == 2
MaxClockWeeks == 1
\* rows the api_requests table may hold
MaxRequests == 2
\* the requests the dashboard logs in one behaviour
MaxStarted == 11

\* ------------------------------------------------------------- encodings
Absent == -1000001
Invalid == -1000002
NaN == -1000003
InvalidDate == -1000004

MinutesPerDay == 1440
MinutesPerWeek == 7 * MinutesPerDay

\* instants used by the inputs: Monday 01:00 of week 0 and of week 1,
\* and an end time 30 minutes after the first
T0 == MinutesPerDay + 60
T1 == MinutesPerWeek + T0
TEnd == T0 + 30
\* the clock at the first invocation: Tuesday 00:00 of week 1
Clock0 == MinutesPerWeek + 2 * MinutesPerDay

VARIABLES data, now, allWeeklyVelocityData, weeklyVolumeData, activityVolumeData,
          apiActivity, startDate, endDate, weeklyVelocityData, threw

\* the state of the dashboard: the response's activity list, the list and
\* the window handed to the graphs, the clock of the last render, what the
\* graphs computed, and whether that render ended in a TypeError
panelVars == <<data, now, allWeeklyVelocityData, weeklyVolumeData,
               activityVolumeData, apiActivity, startDate, endDate,
               weeklyVelocityData, threw>>

\* the backend: the rows of the tables api_requests and date_range_status,
\* the requests whose data was fetched from the API and stored, the position
\* of each /db/summary handler thread and of each background processor
VARIABLES api_requests, date_range_status, fetched, handler, worker

\* whether the workouts table holds rows of the range, and the clocks of the
\* rate limit, in seconds and saturating at min_interval: the time since
\* last_request_time of the sync service's RateLimiter, the time since the
\* last call of the Vital API, and that time as it was when the last call
\* was made
VARIABLES workouts_stored, elapsed, since_call, last_gap

limiterVars == <<workouts_stored, elapsed, since_call, last_gap>>

backendVars == <<api_requests, date_range_status, fetched, handler, worker,
                 limiterVars>>

\* the requests of the dashboard: how each endpoint of the backend answers,
\* the selected user, the data SWR holds, the request log and the number of
\* requests logged so far, the position of the SWR fetch and of the fallback
\* effect, what the fetchDataWithDbFallback calls of the last fetch did, and
\* the download: the flag, the position of the running invocation with the
\* record of the last one, and the title of the last toast
VARIABLES backend, userId, rawData, apiRequests, started, swr, fallback,
          fetchTrace, isDownloading, download, toast

\* the selected time range and the debug state of the panel
VARIABLES timeRange, apiError, apiResponse

clientVars == <<backend, userId, rawData, apiRequests, started, swr, fallback,
                fetchTrace, isDownloading, download, toast, timeRange, apiError,
                apiResponse>>

vars == <<panelVars, backendVars, clientVars>>

\* ------------------------------------------------------ JavaScript helpers
Truthy(x) == x # Absent /\ x # NaN /\ x # 0

IsNumber(x) == x # Absent /\ x # Invalid

\* x > 0 on numbers; false for NaN
GtZero(x) == x # NaN /\ x > 0

\* a + b on numbers
Plus(a, b) == IF a = NaN \/ b = NaN THEN NaN ELSE a + b

\* parseFloat((num/den).toFixed(2)), in hundredths; den > 0
ToFixed2(num, den) ==
    IF num = NaN THEN NaN
    ELSE IF num >= 0 THEN (200 * num + den) \div (2 * den)
    ELSE 0 - ((200 * (0 - num) + den) \div (2 * den))

\* ------------------------------------------------------------------ moment
\* moment(x): undefined is the current time, an unparseable string is an
\* invalid moment
Moment(x, clock) ==
    IF x = Absent THEN clock ELSE IF x = Invalid THEN Invalid ELSE x

\* .startOf('week')
StartOfWeek(m) == IF m = Invalid THEN Invalid ELSE m - (m % MinutesPerWeek)

\* .format('YYYY-MM-DD'): the calendar day, the time of day is dropped
FormatDate(m) == IF m = Invalid THEN InvalidDate ELSE m \div MinutesPerDay

\* moment(week).valueOf() of a 'YYYY-MM-DD' string: local midnight of that day
ValueOfDate(key) == IF key = InvalidDate THEN NaN ELSE key * MinutesPerDay

\* endTime.diff(startTime, 'hours', true), in minutes
Diff(endTime, startTime) ==
    IF endTime = Invalid \/ startTime = Invalid THEN NaN
    ELSE endTime - startTime

\* the iteratee of _.groupBy in the workout-shaped functions
WeekKey(item, clock) == FormatDate(StartOfWeek(Moment(item.time_start, clock)))

\* the iteratee of _.groupBy in the Activity-shaped volume function
ActivityWeekKey(item, clock) == FormatDate(StartOfWeek(Moment(item.date, clock)))

\* ---------------------------------------------------------------- lodash
RECURSIVE KeysInOrder(_)
\* the distinct keys of a key sequence in order of first occurrence: the
\* order of Object.entries over the object _.groupBy builds
KeysInOrder(keys) ==
    IF keys = <<>> THEN <<>>
    ELSE LET front == KeysInOrder(SubSeq(keys, 1, Len(keys) - 1))
             k == keys[Len(keys)]
         IN IF \E i \in 1..Len(front) : front[i] = k THEN front
            ELSE Append(front, k)

\* the group of key k: the items whose key is k, in input order
RECURSIVE Group(_, _, _)
Group(items, keys, k) ==
    IF items = <<>> THEN <<>>
    ELSE LET n == Len(items)
             rest == Group(SubSeq(items, 1, n - 1), SubSeq(keys, 1, n - 1), k)
         IN IF keys[n] = k THEN Append(rest, items[n]) ELSE rest

\* ------------------------------------------------- calculateWeeklyVelocity
\* the threshold test written >= instead of >
NormDistanceFrom100(workout) ==
    IF IsNumber(workout.distance)
    THEN IF workout.distance >= 100 THEN workout.distance * 10
         ELSE workout.distance * 10000
    ELSE IF Truthy(workout.calories) THEN workout.calories
    ELSE 0

\* distance of one workout, in 1/10000 km
NormDistance(workout) ==
    IF IsNumber(workout.distance)
    THEN IF workout.distance > 100 THEN workout.distance * 10
         ELSE workout.distance * 10000
    ELSE IF Truthy(workout.calories) THEN workout.calories
    ELSE 0

\* durationHours of one workout, in minutes
NormDuration(workout) ==
    IF Truthy(workout.duration) THEN workout.duration
    ELSE IF Truthy(workout.time_start) /\ Truthy(workout.time_end)
         THEN Diff(Moment(workout.time_end, 0), Moment(workout.time_start, 0))
    ELSE 0

\* the test without its duration half
CountsDistanceOnly(workout) == GtZero(NormDistance(workout))

\* the test guarding the two += of the forEach body
Counts(workout) == GtZero(NormDistance(workout)) /\ GtZero(NormDuration(workout))

RECURSIVE TotalDistance(_)
TotalDistance(workouts) ==
    IF workouts = <<>> THEN 0
    ELSE LET w == workouts[Len(workouts)]
             rest == TotalDistance(SubSeq(workouts, 1, Len(workouts) - 1))
         IN IF Counts(w) THEN rest + NormDistance(w) ELSE rest

RECURSIVE TotalDurationHours(_)
TotalDurationHours(workouts) ==
    IF workouts = <<>> THEN 0
    ELSE LET w == workouts[Len(workouts)]
             rest == TotalDurationHours(SubSeq(workouts, 1, Len(workouts) - 1))
         IN IF Counts(w) THEN rest + NormDuration(w) ELSE rest

\* the sanity check left out
AvgVelocityNoCap(totalDistance, totalDurationHours) ==
    IF totalDurationHours > 0
    THEN <<6 * totalDistance, 1000 * totalDurationHours>>
    ELSE <<0, 1>>

\* the sanity check resetting the value instead of capping it
AvgVelocityReset(totalDistance, totalDurationHours) ==
    IF totalDurationHours > 0
    THEN IF 6 * totalDistance > 50 * 1000 * totalDurationHours
         THEN <<0, 1>>
         ELSE <<6 * totalDistance, 1000 * totalDurationHours>>
    ELSE <<0, 1>>

\* avgVelocity in km/h as the fraction <<numerator, denominator>>:
\* (dist/10000 km) / (dur/60 h) = 6*dist / (1000*dur), capped at 50
AvgVelocity(totalDistance, totalDurationHours) ==
    IF totalDurationHours > 0
    THEN IF 6 * totalDistance > 50 * 1000 * totalDurationHours
         THEN <<50, 1>>
         ELSE <<6 * totalDistance, 1000 * totalDurationHours>>
    ELSE <<0, 1>>

\* the row of one week
VelocityRow(week, workouts) ==
    LET avg == AvgVelocity(TotalDistance(workouts), TotalDurationHours(workouts))
    IN [week |-> ValueOfDate(week),
        velocityKmh |-> ToFixed2(avg[1], avg[2]),
        workoutCount |-> Len(workouts)]

\* Array.prototype.sort((a, b) => a.week - b.week): the permutations the
\* sort may apply.  With a NaN week the comparator is inconsistent and the
\* order is implementation-defined.
SortPermutations(rows) ==
    LET n == Len(rows)
    IN IF \E i \in 1..n : rows[i].week = NaN THEN Permutations(1..n)
       ELSE {p \in Permutations(1..n) : \A i \in 1..n : \A j \in 1..n :
                i < j => rows[p[i]].week <= rows[p[j]].week}

\* the array after the sort applied permutation p
Sorted(rows, p) == [i \in 1..Len(rows) |-> rows[p[i]]]

SortOutcomes(rows) == {Sorted(rows, p) : p \in SortPermutations(rows)}

\* an empty input given a zero row for the current week
VelocityRowsCurrentWeek(items, clock) ==
    LET keyOf == [i \in 1..Len(items) |-> WeekKey(items[i], clock)]
        keys == IF items = <<>> THEN <<FormatDate(StartOfWeek(clock))>>
                ELSE KeysInOrder(keyOf)
    IN [i \in 1..Len(keys) |-> VelocityRow(keys[i], Group(items, keyOf, keys[i]))]

\* the rows before the sort
VelocityRows(items, clock) ==
    LET keyOf == [i \in 1..Len(items) |-> WeekKey(items[i], clock)]
        keys == KeysInOrder(keyOf)
    IN [i \in 1..Len(keys) |-> VelocityRow(keys[i], Group(items, keyOf, keys[i]))]

calculateWeeklyVelocity(items, clock) == SortOutcomes(VelocityRows(items, clock))

\* ------------------------------------- WeeklyVelocityGraph: the date window
\* moment(x).valueOf() of a prop
ValueOf(x, clock) ==
    LET m == Moment(x, clock) IN IF m = Invalid THEN NaN ELSE m

\* both comparisons written strict
InWindowExclusive(week, start, end) ==
    /\ week # NaN /\ start # NaN /\ end # NaN
    /\ week > start /\ week < end

\* item.week >= start && item.week <= end; false when an operand is NaN
InWindow(week, start, end) ==
    /\ week # NaN /\ start # NaN /\ end # NaN
    /\ week >= start /\ week <= end

\* rows outside the window moved to its nearer edge instead of dropped
WindowClamped(rows, sd, ed, clock) ==
    IF sd = Absent /\ ed = Absent THEN rows
    ELSE LET start == IF sd # Absent THEN ValueOf(sd, clock) ELSE 0
             end == IF ed # Absent THEN ValueOf(ed, clock) ELSE clock
         IN [i \in 1..Len(rows) |->
               IF InWindow(rows[i].week, start, end) \/ rows[i].week = NaN
               THEN rows[i]
               ELSE [rows[i] EXCEPT !.week =
                        IF rows[i].week < start THEN start ELSE end]]

\* the useMemo computing weeklyVelocityData; a prop is supplied when it is
\* a non-empty string
WindowFilter(rows, sd, ed, clock) ==
    IF sd = Absent /\ ed = Absent THEN rows
    ELSE LET start == IF sd # Absent THEN ValueOf(sd, clock) ELSE 0
             end == IF ed # Absent THEN ValueOf(ed, clock) ELSE clock
             Keep(item) == InWindow(item.week, start, end)
         IN SelectSeq(rows, Keep)

\* --------------------------------------------------- calculateWeeklyVolume
RECURSIVE SumSeq(_)
\* _.sumBy over the values the iteratee returned
SumSeq(terms) ==
    IF terms = <<>> THEN 0
    ELSE Plus(SumSeq(SubSeq(terms, 1, Len(terms) - 1)), terms[Len(terms)])

\* the iteratee of _.sumBy, workout-shaped variant, in hundredths of a km
VolumeTerm(workout) ==
    IF Truthy(workout.distance) THEN workout.distance * 100
    ELSE IF Truthy(workout.calories) THEN workout.calories
    ELSE 0

\* the iteratee of _.sumBy, Activity-shaped variant, in hundredths of a km;
\* undefined / 100 is NaN
ActivityVolumeTerm(activity) ==
    IF activity.calories_total = Absent THEN NaN ELSE activity.calories_total

VolumeRow(week, workouts) ==
    LET totalDistanceKm == SumSeq([i \in 1..Len(workouts) |-> VolumeTerm(workouts[i])])
    IN [week |-> ValueOfDate(week), volumeKm |-> ToFixed2(totalDistanceKm, 100)]

ActivityVolumeRow(week, activities) ==
    LET totalDistanceKm ==
            SumSeq([i \in 1..Len(activities) |-> ActivityVolumeTerm(activities[i])])
    IN [week |-> ValueOfDate(week), volumeKm |-> ToFixed2(totalDistanceKm, 100)]

VolumeRows(items, clock) ==
    LET keyOf == [i \in 1..Len(items) |-> WeekKey(items[i], clock)]
        keys == KeysInOrder(keyOf)
    IN [i \in 1..Len(keys) |-> VolumeRow(keys[i], Group(items, keyOf, keys[i]))]

ActivityVolumeRows(items, clock) ==
    LET keyOf == [i \in 1..Len(items) |-> ActivityWeekKey(items[i], clock)]
        keys == KeysInOrder(keyOf)
    IN [i \in 1..Len(keys) |->
          ActivityVolumeRow(keys[i], Group(items, keyOf, keys[i]))]

calculateWeeklyVolume(items, clock) == SortOutcomes(VolumeRows(items, clock))

calculateWeeklyVolumeActivity(items, clock) ==
    SortOutcomes(ActivityVolumeRows(items, clock))

\* ------------------------------------------------------------------ inputs
Workout(ts, te, d, c, dur) ==
    [time_start |-> ts, time_end |-> te, distance |-> d, calories |-> c,
     duration |-> dur, date |-> Absent, calories_total |-> Absent]

Activity(day, ct) ==
    [time_start |-> Absent, time_end |-> Absent, distance |-> Absent,
     calories |-> Absent, duration |-> Absent, date |-> day, calories_total |-> ct]

\* records that differ in their timestamps: an explicit duration or a
\* duration from time_start and time_end; and one with an explicit duration 0
TimingRecords ==
    {Workout(ts, td[1], 10, Absent, td[2]) :
        ts \in {Absent, Invalid, T0, T1},
        td \in {<<Absent, 60>>, <<TEnd, Absent>>}}
        \cup {Workout(T0, TEnd, 10, Absent, 0)}

\* records that differ in their distance and calories
DistanceRecords ==
    {Workout(T0, Absent, d, Absent, 60) : d \in {-5, 0, 100, 101}}
        \cup {Workout(T0, Absent, Absent, -300, 60),
              Workout(T0, Absent, 0, 2000, 60)}

\* the records of the examples: distance in metres, and calories only
ExampleRecords ==
    {Workout(T0, Absent, 500, Absent, 60),
     Workout(T0, Absent, Absent, 2000, Absent)}

ActivityRecords == {Activity(T0, 2000), Activity(T1, -300)}

Records == TimingRecords \cup DistanceRecords \cup ExampleRecords \cup ActivityRecords

Clocks == {Clock0 + k * MinutesPerWeek : k \in 0..MaxClockWeeks}

\* a null element of the list
Null == [null |-> TRUE]

\* an element of the response's activity list
RawActivity(day, ct, high, medium, low, dm) ==
    [date |-> day, calories_total |-> ct, high |-> high, medium |-> medium,
     low |-> low, daily_movement |-> dm]

\* activities with a daily_movement in metres, with calories only (a
\* multiple of 10000), without active minutes, and without a date
RawActivities ==
    {RawActivity(T0, Absent, 30, 0, 0, 5000),
     RawActivity(T1, 50000, 60, Absent, Absent, Absent),
     RawActivity(T1, 10000, 0, 0, 0, Absent),
     RawActivity(Absent, Absent, 20, 20, 20, 10000)}

\* the elements of the response's workouts list
PanelWorkouts ==
    {Workout(T0, Absent, 10, Absent, 60), Workout(T1, Absent, 10, Absent, 60),
     Workout(Absent, Absent, 10, Absent, 60),
     Workout(Invalid, Absent, 10, Absent, 60), Null}

\* the windows <<startDate, endDate>> handed to the graphs
Windows ==
    {<<Absent, Absent>>, <<MinutesPerWeek, MinutesPerWeek>>, <<0, T1>>,
     <<T0, Absent>>, <<Absent, T0>>}

\* ------------------------------------------------------ WeeklyStatsPanel
\* x || 0
OrZero(x) == IF Truthy(x) THEN x ELSE 0

\* the object processWorkoutData builds from one element of data.activity.
\* time_end: moment(date).add(1, 'hour').toISOString(), null for a date
\* moment cannot parse (null is falsy, as Absent is).  The quotient
\* calories_total / 10000 is exact for the inputs used.
processActivity(a, clock) ==
    Workout(a.date,
            IF Moment(a.date, clock) = Invalid THEN Absent
            ELSE Moment(a.date, clock) + 60,
            IF Truthy(a.daily_movement) THEN a.daily_movement
            ELSE IF Truthy(a.calories_total) THEN a.calories_total \div 10000
            ELSE 0,
            OrZero(a.calories_total),
            OrZero(a.high) + OrZero(a.medium) + OrZero(a.low))

\* the workouts of the list handed to the graphs: combinedData is
\* [...processedWorkouts, ...processedActivities]
WorkoutsPart(items, acts) == SubSeq(items, 1, Len(items) - Len(acts))

ActivitiesPart(items, acts) ==
    SubSeq(items, Len(items) - Len(acts) + 1, Len(items))

\* ------------------------------------------- backend: the request queue
\* one user and one date range; the data types asked for
Endpoints == {"workouts", "activity"}

\* the threads serving GET /db/summary
Handlers == {"h1", "h2"}

\* process_api_queue of the API server and run_sync_service
Processors == {"queue", "sync"}

\* .limit(10) of process_pending_requests and .limit(5) of
\* process_api_requests
QueueBatch == 10
SyncBatch == 5

\* RateLimiter(requests_per_minute=30): min_interval = 60.0 /
\* requests_per_minute, in seconds
RequestsPerMinute == 30
MinInterval == 60 \div RequestsPerMinute

\* models.APIRequest(..., status="pending"); the id is the row's index
APIRequest(dt) == [endpoint |-> dt, status |-> "pending"]

Idle == [pc |-> "idle", data_type |-> "none"]

BackendInit ==
    /\ api_requests = <<>>
    /\ date_range_status = {}
    /\ fetched = {}
    /\ handler = [h \in Handlers |-> Idle]
    /\ worker = [p \in Processors |-> [pc |-> "sleep", batch |-> <<>>]]
    /\ workouts_stored = FALSE
    /\ elapsed = MinInterval
    /\ since_call = MinInterval
    /\ last_gap = MinInterval

\* filter(status == "pending").order_by(requested_at).limit(n).all()
PendingBatch(rows, n) ==
    LET IsPending(i) == rows[i].status = "pending"
        ids == SelectSeq([i \in 1..Len(rows) |-> i], IsPending)
    IN SubSeq(ids, 1, IF Len(ids) < n THEN Len(ids) ELSE n)

\* request.status = st; db.commit(): an UPDATE of the row by its id
SetStatus(rows, id, st) == [rows EXCEPT ![id].status = st]

\* the next iteration of the for loop, or the function returns
AfterRequest(w) ==
    LET rest == Tail(w.batch)
    IN [pc |-> IF rest = <<>> THEN "sleep" ELSE "loop", batch |-> rest]

\* the handlers that may still add a row to api_requests
InFlight ==
    Cardinality({h \in Handlers : handler[h].pc \in {"schedule", "insert"}})

\* get_db_summary up to the call of schedule_request: no complete
\* DateRangeStatus covers the range (with one, the handler returns the
\* stored data and changes nothing)
GetDbSummary(h, dt) ==
    /\ handler[h].pc = "idle"
    /\ dt \notin date_range_status
    /\ Len(api_requests) + InFlight < MaxRequests
    /\ handler' = [handler EXCEPT ![h] = [pc |-> "schedule", data_type |-> dt]]
    /\ UNCHANGED <<api_requests, date_range_status, fetched, worker, limiterVars, panelVars, clientVars>>

\* schedule_request: the query for a pending or in_progress request of the
\* same user, endpoint and range; with one, it is returned
ScheduleQuery(h) ==
    /\ handler[h].pc = "schedule"
    /\ LET dt == handler[h].data_type
           existing_request ==
               \E i \in 1..Len(api_requests) :
                   /\ api_requests[i].endpoint = dt
                   /\ api_requests[i].status \in {"pending", "in_progress"}
       IN handler' = [handler EXCEPT ![h] =
                         IF existing_request
                         THEN [pc |-> "respond", data_type |-> dt]
                         ELSE [pc |-> "insert", data_type |-> dt]]
    /\ UNCHANGED <<api_requests, date_range_status, fetched, worker, limiterVars, panelVars, clientVars>>

\* schedule_request: db.add(api_request); db.commit()
ScheduleCommit(h) ==
    /\ handler[h].pc = "insert"
    /\ api_requests' = Append(api_requests, APIRequest(handler[h].data_type))
    /\ handler' = [handler EXCEPT ![h].pc = "respond"]
    /\ UNCHANGED <<date_range_status, fetched, worker, limiterVars, panelVars, clientVars>>

\* get_db_summary after schedule_request: the rows of the workouts table are
\* returned when there are any; for another data type nothing is read
HandlerReturn(h) ==
    /\ handler[h].pc = "respond"
    /\ handler[h].data_type # "workouts" \/ workouts_stored
    /\ handler' = [handler EXCEPT ![h] = Idle]
    /\ UNCHANGED <<api_requests, date_range_status, fetched, worker,
                   limiterVars, panelVars, clientVars>>

\* get_db_summary after schedule_request, no workout in the table:
\* client.Workouts.get is called at once; its data is stored, or the call
\* raises and sample data is returned
HandlerDirectCall(h) ==
    /\ handler[h].pc = "respond"
    /\ handler[h].data_type = "workouts"
    /\ ~workouts_stored
    /\ last_gap' = since_call
    /\ since_call' = 0
    /\ workouts_stored' \in BOOLEAN
    /\ handler' = [handler EXCEPT ![h] = Idle]
    /\ UNCHANGED <<api_requests, date_range_status, fetched, worker, elapsed,
                   panelVars, clientVars>>

\* a processor wakes up and reads its batch of pending requests
QueryPending(p) ==
    /\ worker[p].pc = "sleep"
    /\ LET pending_requests ==
               PendingBatch(api_requests,
                            IF p = "queue" THEN QueueBatch ELSE SyncBatch)
       IN /\ pending_requests # <<>>
          /\ worker' = [worker EXCEPT ![p] =
                           [pc |-> "loop", batch |-> pending_requests]]
    /\ UNCHANGED <<api_requests, date_range_status, fetched, handler, limiterVars, panelVars, clientVars>>

\* request.status = "in_progress"; db.commit()
MarkInProgress(p) ==
    /\ worker[p].pc = "loop"
    /\ api_requests' = SetStatus(api_requests, Head(worker[p].batch), "in_progress")
    /\ worker' = [worker EXCEPT ![p].pc = "in_progress"]
    /\ UNCHANGED <<date_range_status, fetched, handler, limiterVars, panelVars, clientVars>>

\* process_pending_requests: the call of the API is commented out;
\* request.status = "completed"; db.commit()
QueueComplete ==
    /\ worker["queue"].pc = "in_progress"
    /\ api_requests' =
          SetStatus(api_requests, Head(worker["queue"].batch), "completed")
    /\ worker' = [worker EXCEPT !["queue"] = AfterRequest(worker["queue"])]
    /\ UNCHANGED <<date_range_status, fetched, handler, limiterVars, panelVars, clientVars>>

\* process_api_requests: rate_limiter.wait() returns once min_interval has
\* passed since last_request_time, and sets last_request_time
SyncWait ==
    /\ worker["sync"].pc = "in_progress"
    /\ elapsed >= MinInterval
    /\ elapsed' = 0
    /\ worker' = [worker EXCEPT !["sync"].pc = "waited"]
    /\ UNCHANGED <<api_requests, date_range_status, fetched, handler,
                   workouts_stored, since_call, last_gap, panelVars, clientVars>>

\* process_api_requests: for the endpoint "workouts" the data is fetched and
\* stored; for every other endpoint items_count = 0 and nothing is fetched
SyncFetch ==
    /\ worker["sync"].pc = "waited"
    /\ LET id == Head(worker["sync"].batch)
       IN IF api_requests[id].endpoint = "workouts"
          THEN /\ fetched' = fetched \cup {id}
               /\ workouts_stored' = TRUE
               /\ last_gap' = since_call
               /\ since_call' = 0
          ELSE UNCHANGED <<fetched, workouts_stored, last_gap, since_call>>
    /\ worker' = [worker EXCEPT !["sync"].pc = "fetched"]
    /\ UNCHANGED <<api_requests, date_range_status, handler, elapsed, panelVars, clientVars>>

\* process_api_requests: client.Workouts.get or store_workout_data raises;
\* request.status = "failed"; db.commit()
SyncFetchFails ==
    /\ worker["sync"].pc = "waited"
    /\ api_requests[Head(worker["sync"].batch)].endpoint = "workouts"
    /\ api_requests' =
          SetStatus(api_requests, Head(worker["sync"].batch), "failed")
    /\ last_gap' = since_call
    /\ since_call' = 0
    /\ worker' = [worker EXCEPT !["sync"] = AfterRequest(worker["sync"])]
    /\ UNCHANGED <<date_range_status, fetched, handler, workouts_stored,
                   elapsed, panelVars, clientVars>>

\* process_api_requests: request.status = "completed"; db.commit()
SyncComplete ==
    /\ worker["sync"].pc = "fetched"
    /\ api_requests' =
          SetStatus(api_requests, Head(worker["sync"].batch), "completed")
    /\ worker' = [worker EXCEPT !["sync"].pc = "completed"]
    /\ UNCHANGED <<date_range_status, fetched, handler, limiterVars, panelVars, clientVars>>

\* update_date_range_status: is_complete = True for the request's range
SyncUpdateRange ==
    /\ worker["sync"].pc = "completed"
    /\ date_range_status' = date_range_status
          \cup {api_requests[Head(worker["sync"].batch)].endpoint}
    /\ worker' = [worker EXCEPT !["sync"] = AfterRequest(worker["sync"])]
    /\ UNCHANGED <<api_requests, fetched, handler, limiterVars, panelVars, clientVars>>

\* a second passes
Tick ==
    /\ elapsed < MinInterval \/ since_call < MinInterval
    /\ elapsed' = IF elapsed < MinInterval THEN elapsed + 1 ELSE elapsed
    /\ since_call' = IF since_call < MinInterval THEN since_call + 1
                     ELSE since_call
    /\ UNCHANGED <<api_requests, date_range_status, fetched, handler, worker,
                   workouts_stored, last_gap, panelVars, clientVars>>

BackendNext ==
    \/ \E h \in Handlers : \E dt \in Endpoints : GetDbSummary(h, dt)
    \/ \E h \in Handlers : ScheduleQuery(h)
    \/ \E h \in Handlers : ScheduleCommit(h)
    \/ \E h \in Handlers : HandlerReturn(h)
    \/ \E h \in Handlers : HandlerDirectCall(h)
    \/ \E p \in Processors : QueryPending(p)
    \/ \E p \in Processors : MarkInProgress(p)
    \/ QueueComplete
    \/ SyncWait
    \/ SyncFetch
    \/ SyncFetchFails
    \/ SyncComplete
    \/ SyncUpdateRange
    \/ Tick

\* ------------------------------------------- dashboard: the requests sent
\* how an endpoint answers a GET:
\*   "data"   200 with a JSON object that holds the data under its key(s)
\*   "empty"  200 with an object without the key, such as {} (or with [])
\*   "null"   200 with the body null
\*   "error"  a status outside 200..299
\*   "down"   the request itself fails: fetch() rejects
ResponseKinds == {"data", "empty", "null", "error", "down"}

\* response.ok
Ok(kind) == kind \in {"data", "empty", "null"}

\* one backend: the answer of /db/summary/{data_type}, of the direct
\* /summary/{data_type}/{user}, of /summary/{user}, and of /download/{user}
\* with and without dates
Environment(dbWorkouts, dbActivity, direct, summary, downloadDates, downloadAll) ==
    [db_workouts |-> dbWorkouts, db_activity |-> dbActivity, direct |-> direct,
     summary |-> summary, download_dates |-> downloadDates,
     download |-> downloadAll]

\* the backend of the setup guide: get_db_summary returns the stored rows
\* for workouts and nothing, i.e. null, for every other data type
GuideBackend == Environment("data", "null", "data", "data", "data", "data")

\* the backends a behaviour runs against: the guide's, one where every
\* endpoint has data, one that is unreachable, one without the /db and
\* /download routes, and one where only the last download endpoint has data
Backends ==
    { GuideBackend,
      Environment("data", "data", "data", "data", "data", "data"),
      Environment("down", "down", "down", "down", "down", "down"),
      Environment("error", "error", "data", "data", "error", "error"),
      Environment("error", "empty", "null", "empty", "error", "data") }

\* the answer of the backend to a GET of `url`
Response(env, url) ==
    CASE url = "db_workouts"      -> env.db_workouts
      [] url = "db_activity"      -> env.db_activity
      [] url = "summary_workouts" -> env.direct
      [] url = "summary_activity" -> env.direct
      [] url = "summary"          -> env.summary
      [] url = "download_dates"   -> env.download_dates
      [] url = "download"         -> env.download

\* fetchSummaryData: the promise resolves with data[key] or with the whole
\* object; a status that is not OK, a failed request and Object.keys(null)
\* reject it
fetchSummaryData(env, data_type) ==
    IF Response(env, "summary_" \o data_type) \in {"data", "empty"}
    THEN "resolved" ELSE "rejected"

\* fetchDataWithDbFallback: the answer of the database endpoint, the number
\* of calls of fetchSummaryData, and how the promise settles.  A database
\* answer that is not OK hands over to fetchSummaryData, whose rejection the
\* trailing catch answers with a second call; the body null throws at
\* Object.keys(data) in the second then, which the same catch handles
fetchDataWithDbFallback(env, data_type) ==
    LET db == Response(env, "db_" \o data_type)
        direct == fetchSummaryData(env, data_type)
    IN CASE db \in {"data", "empty"} ->
              [db |-> db, directCalls |-> 0, result |-> "resolved"]
         [] db = "null" ->
              [db |-> db, directCalls |-> 1, result |-> direct]
         [] db = "error" ->
              [db |-> db, directCalls |-> IF direct = "resolved" THEN 1 ELSE 2,
               result |-> direct]
         [] db = "down" ->
              [db |-> db, directCalls |-> 1, result |-> direct]

\* the SWR fetcher: workouts, then activity when the workouts were fetched
FetcherCalls(env) ==
    LET w == fetchDataWithDbFallback(env, "workouts")
    IN IF w.result = "resolved"
       THEN <<w, fetchDataWithDbFallback(env, "activity")>>
       ELSE <<w>>

\* the request log keeps its first entries
LogLimit == 10

\* a new entry of the request log; the timestamp is the position of the
\* request among all requests started
NewRequest(n, url) == [timestamp |-> n, url |-> url, status |-> "pending"]

\* [newRequest, ...prev] without the slice
LogUnbounded(prev, newRequest) == <<newRequest>> \o prev

\* setApiRequests(prev => [newRequest, ...prev].slice(0, 10))
LogRequest(prev, newRequest) ==
    SubSeq(<<newRequest>> \o prev, 1,
           IF Len(prev) + 1 < LogLimit THEN Len(prev) + 1 ELSE LogLimit)

\* setApiRequests(prev => prev.map(req => req.url === url &&
\* req.status === 'pending' ? {...req, status} : req))
UpdateStatus(prev, url, status) ==
    [k \in 1..Len(prev) |->
        IF prev[k].url = url /\ prev[k].status = "pending"
        THEN [prev[k] EXCEPT !.status = status] ELSE prev[k]]

\* no user is selected
NoUser == ""

\* the time ranges of the panel and what moment's subtract takes off, in
\* minutes, with months of 30 and years of 365 days
TimeRangeOption == {"1w", "1m", "6m", "1y", "2y", "5y"}

PeriodMinutes(period) ==
    CASE period = "1w" -> MinutesPerWeek
      [] period = "1m" -> 30 * MinutesPerDay
      [] period = "6m" -> 6 * 30 * MinutesPerDay
      [] period = "1y" -> 365 * MinutesPerDay
      [] period = "2y" -> 2 * 365 * MinutesPerDay
      [] period = "5y" -> 5 * 365 * MinutesPerDay

\* the endpoints downloadUserData tries, in order
DownloadEndpoints == <<"download_dates", "summary", "summary_workouts", "download">>

\* an attempt succeeds whenever the response is OK
NonEmptyOnOk(kind) == Ok(kind)

\* an attempt of the download succeeds: the response is OK and its body is
\* neither falsy nor an empty array nor an object without keys
NonEmpty(kind) == kind = "data"

\* the download is not running; the record is that of the last invocation
DownloadIdle == [pc |-> "idle", i |-> 0, made |-> 0, successfulData |-> 0]

\* the requests the running download may still log
Reserved == IF download.pc = "idle" THEN 0 ELSE Len(DownloadEndpoints) - download.made

\* the client after the panel was mounted, without a user
ClientConstructed ==
    /\ userId = NoUser
    /\ rawData = "undefined"
    /\ apiRequests = <<>>
    /\ started = 0
    /\ swr = "idle"
    /\ fallback = "idle"
    /\ fetchTrace = <<>>
    /\ isDownloading = FALSE
    /\ download = DownloadIdle
    /\ toast = "none"
    /\ timeRange = "6m"
    /\ apiError = "null"
    /\ apiResponse = "null"

\* what the graphs hold; no request of the panel reaches them before its
\* data was processed, and the lists stay empty throughout
graphVars == <<data, allWeeklyVelocityData, weeklyVolumeData, activityVolumeData,
               apiActivity, weeklyVelocityData, threw>>

\* the user prop changes from null to a user: the effect on userId clears
\* the debug state, the SWR key becomes non-null and the fallback effect
\* is due
SelectUser ==
    /\ userId = NoUser
    /\ userId' = "user"
    /\ apiResponse' = "null"
    /\ apiError' = "null"
    /\ swr' = "due"
    /\ fallback' = "due"
    /\ UNCHANGED <<backend, rawData, apiRequests, started, fetchTrace,
                   isDownloading, download, toast, timeRange>>
    /\ UNCHANGED <<panelVars, backendVars>>

\* refreshData: clears the debug state and revalidates
refreshData ==
    /\ userId # NoUser
    /\ swr = "idle"
    /\ apiError' = "null"
    /\ apiResponse' = "null"
    /\ swr' = "due"
    /\ UNCHANGED <<backend, userId, rawData, apiRequests, started, fallback,
                   fetchTrace, isDownloading, download, toast, timeRange>>
    /\ UNCHANGED <<panelVars, backendVars>>

\* the SWR fetcher starts: it logs the request and sends it
SwrFetch ==
    /\ swr = "due"
    /\ started + Reserved < MaxStarted
    /\ apiRequests' = LogRequest(apiRequests, NewRequest(started + 1, "db_workouts"))
    /\ started' = started + 1
    /\ swr' = "fetching"
    /\ UNCHANGED <<backend, userId, rawData, fallback, fetchTrace, isDownloading,
                   download, toast, timeRange, apiError, apiResponse>>
    /\ UNCHANGED <<panelVars, backendVars>>

\* the promise of the fetcher settles: the entry is updated, then onSuccess
\* or onError runs.  The fallback effect of the render that started the
\* fetch has run by then.
SwrSettle ==
    /\ swr = "fetching"
    /\ fallback # "due"
    /\ LET calls == FetcherCalls(backend)
           ok == calls[Len(calls)].result = "resolved"
       IN /\ fetchTrace' = calls
          /\ apiRequests' = UpdateStatus(apiRequests, "db_workouts",
                                         IF ok THEN "success" ELSE "error")
          /\ rawData' = IF ok THEN "complete" ELSE rawData
          /\ apiResponse' = IF ok THEN "data" ELSE apiResponse
          /\ apiError' = IF ok THEN apiError ELSE "message"
    /\ swr' = "idle"
    /\ UNCHANGED <<backend, userId, started, fallback, isDownloading, download,
                   toast, timeRange>>
    /\ UNCHANGED <<panelVars, backendVars>>

\* the fallback effect runs: with a user and without complete data it clears
\* the error, logs a request of /summary/{user} and sends it
FallbackStart ==
    /\ fallback = "due"
    /\ IF userId # NoUser /\ rawData # "complete"
       THEN /\ started + Reserved < MaxStarted
            /\ apiError' = "null"
            /\ apiRequests' = LogRequest(apiRequests, NewRequest(started + 1, "summary"))
            /\ started' = started + 1
            /\ fallback' = "fetching"
       ELSE /\ fallback' = "idle"
            /\ UNCHANGED <<apiError, apiRequests, started>>
    /\ UNCHANGED <<backend, userId, rawData, swr, fetchTrace, isDownloading,
                   download, toast, timeRange, apiResponse>>
    /\ UNCHANGED <<panelVars, backendVars>>

\* the fallback request settles.  An OK response marks the entry and is
\* stored before it is processed; combinedData.workouts of the body null
\* throws into the catch, which finds no pending entry of its own any more
FallbackSettle ==
    /\ fallback = "fetching"
    /\ LET kind == Response(backend, "summary")
       IN IF Ok(kind)
          THEN /\ apiRequests' =
                     IF kind = "null"
                     THEN UpdateStatus(UpdateStatus(apiRequests, "summary", "success"),
                                       "summary", "error")
                     ELSE UpdateStatus(apiRequests, "summary", "success")
               /\ apiResponse' = IF kind = "null" THEN "null" ELSE "data"
               /\ apiError' = IF kind = "null" THEN "message" ELSE apiError
          ELSE /\ apiRequests' = UpdateStatus(apiRequests, "summary", "error")
               /\ apiError' = "message"
               /\ UNCHANGED apiResponse
    /\ fallback' = "idle"
    /\ UNCHANGED <<backend, userId, rawData, started, swr, fetchTrace,
                   isDownloading, download, toast, timeRange>>
    /\ UNCHANGED <<panelVars, backendVars>>

\* downloadUserData up to the loop: without a user to use the function
\* shows a toast and returns.  downloadUserDataUntilMarch5 is the same
\* function with another end date in its first three URLs.
downloadUserData(specificUserId) ==
    /\ download.pc = "idle"
    /\ LET userIdToUse == IF specificUserId # NoUser THEN specificUserId ELSE userId
       IN IF userIdToUse = NoUser
          THEN /\ toast' = "No user selected"
               /\ isDownloading' = FALSE
               /\ download' = DownloadIdle
          ELSE /\ started + Len(DownloadEndpoints) <= MaxStarted
               /\ isDownloading' = TRUE
               /\ download' = [DownloadIdle EXCEPT !.pc = "loop", !.i = 1]
               /\ UNCHANGED toast
    /\ UNCHANGED <<backend, userId, rawData, apiRequests, started, swr, fallback,
                   fetchTrace, timeRange, apiError, apiResponse>>
    /\ UNCHANGED <<panelVars, backendVars>>

\* one turn of the loop up to the await: the attempt is logged and sent
DownloadRequest ==
    /\ download.pc = "loop"
    /\ apiRequests' = LogRequest(apiRequests,
                                 NewRequest(started + 1, DownloadEndpoints[download.i]))
    /\ started' = started + 1
    /\ download' = [download EXCEPT !.pc = "await", !.made = @ + 1]
    /\ UNCHANGED <<backend, userId, rawData, swr, fallback, fetchTrace,
                   isDownloading, toast, timeRange, apiError, apiResponse>>
    /\ UNCHANGED <<panelVars, backendVars>>

\* the rest of the turn: non-empty data ends the loop, anything else is
\* caught, marks the entry and goes on to the next endpoint
DownloadResponse ==
    /\ download.pc = "await"
    /\ LET downloadUrl == DownloadEndpoints[download.i]
       IN IF NonEmpty(Response(backend, downloadUrl))
          THEN /\ apiRequests' = UpdateStatus(apiRequests, downloadUrl, "success")
               /\ download' = [download EXCEPT !.pc = "file",
                                               !.successfulData = download.i]
          ELSE /\ apiRequests' = UpdateStatus(apiRequests, downloadUrl, "error")
               /\ download' = IF download.i < Len(DownloadEndpoints)
                              THEN [download EXCEPT !.pc = "loop", !.i = @ + 1]
                              ELSE [download EXCEPT !.pc = "file"]
    /\ UNCHANGED <<backend, userId, rawData, started, swr, fallback, fetchTrace,
                   isDownloading, toast, timeRange, apiError, apiResponse>>
    /\ UNCHANGED <<panelVars, backendVars>>

\* after the loop, returning without the reset of the flag
DownloadReturns ==
    /\ download.pc = "file"
    /\ IF download.successfulData # 0
       THEN toast' \in {"Download complete", "Download error"}
       ELSE toast' = "Download failed"
    /\ download' = [download EXCEPT !.pc = "idle"]
    /\ UNCHANGED <<backend, userId, rawData, apiRequests, started, swr, fallback,
                   fetchTrace, isDownloading, timeRange, apiError, apiResponse>>
    /\ UNCHANGED <<panelVars, backendVars>>

\* after the loop: the file is created, or creating it throws, or there is
\* no data; each way ends with setIsDownloading(false)
DownloadFinish ==
    /\ download.pc = "file"
    /\ IF download.successfulData # 0
       THEN toast' \in {"Download complete", "Download error"}
       ELSE toast' = "Download failed"
    /\ isDownloading' = FALSE
    /\ download' = [download EXCEPT !.pc = "idle"]
    /\ UNCHANGED <<backend, userId, rawData, apiRequests, started, swr, fallback,
                   fetchTrace, timeRange, apiError, apiResponse>>
    /\ UNCHANGED <<panelVars, backendVars>>

ClientNext ==
    \/ SelectUser
    \/ refreshData
    \/ SwrFetch
    \/ SwrSettle
    \/ FallbackStart
    \/ FallbackSettle
    \/ \E specificUserId \in {NoUser, "user"} : downloadUserData(specificUserId)
    \/ DownloadRequest
    \/ DownloadResponse
    \/ DownloadFinish

\* the state after the panel was mounted: the window is the last six months
ClientInit ==
    /\ data = <<>>
    /\ now = Clock0
    /\ allWeeklyVelocityData = <<>>
    /\ weeklyVolumeData = <<>>
    /\ activityVolumeData = <<>>
    /\ apiActivity = <<>>
    /\ startDate = Clock0 - PeriodMinutes("6m")
    /\ endDate = Clock0
    /\ weeklyVelocityData = <<>>
    /\ threw = FALSE
    /\ BackendInit
    /\ backend \in Backends
    /\ ClientConstructed

ClientSpec == ClientInit /\ [][ClientNext]_vars

\* newStartDate with the period added to the time of the call
NewStartDateLater(clock, period) == clock + PeriodMinutes(period)

\* newStartDate: moment().subtract(...) of the selected period
NewStartDate(clock, period) == clock - PeriodMinutes(period)

\* handleDateChange, called at `clock` while no request is in flight: every
\* TimeRangeOption is a case of the switch.  The new dates are a new SWR
\* key, without data yet, which is fetched, and the fallback effect is due.
handleDateChange(period, clock) ==
    /\ clock >= now
    /\ swr = "idle"
    /\ fallback = "idle"
    /\ now' = clock
    /\ timeRange' = period
    /\ startDate' = NewStartDate(clock, period)
    /\ endDate' = clock
    /\ apiError' = "null"
    /\ apiResponse' = "null"
    /\ rawData' = "undefined"
    /\ swr' = IF userId # NoUser THEN "due" ELSE "idle"
    /\ fallback' = "due"
    /\ UNCHANGED <<backend, userId, apiRequests, started, fetchTrace,
                   isDownloading, download, toast>>
    /\ UNCHANGED <<graphVars, backendVars>>

\* the panel with its time range buttons
DateNext ==
    \/ SelectUser
    \/ \E period \in TimeRangeOption, clock \in Clocks : handleDateChange(period, clock)
    \/ SwrFetch
    \/ SwrSettle
    \/ FallbackStart
    \/ FallbackSettle

DateSpec == ClientInit /\ [][DateNext]_vars

\* the panel with its download buttons
DownloadNext ==
    \/ SelectUser
    \/ \E specificUserId \in {NoUser, "user"} : downloadUserData(specificUserId)
    \/ DownloadRequest
    \/ DownloadResponse
    \/ DownloadFinish

\* a download that runs
DownloadStep ==
    \/ DownloadRequest
    \/ DownloadResponse
    \/ DownloadFinish

\* every request of the download settles and the function runs on
DownloadFairSpec ==
    /\ ClientInit
    /\ [][DownloadNext]_vars
    /\ WF_vars(DownloadStep)

\* ----------------------------------------------------------- state machine
TypeOK ==
    /\ data \in Seq(Records \cup PanelWorkouts
                     \cup {processActivity(a, c) : a \in RawActivities, c \in Clocks})
    /\ now \in Clocks
    /\ apiActivity \in Seq(RawActivities)
    /\ <<startDate, endDate>> \in Windows
    /\ threw \in BOOLEAN

Init ==
    /\ data = <<>>
    /\ now = Clock0
    /\ allWeeklyVelocityData = <<>>
    /\ weeklyVolumeData = <<>>
    /\ activityVolumeData = <<>>
    /\ apiActivity = <<>>
    /\ startDate = Absent
    /\ endDate = Absent
    /\ weeklyVelocityData = <<>>
    /\ threw = FALSE
    /\ BackendInit
    /\ backend = GuideBackend
    /\ ClientConstructed

\* item.time_start of a null element is a TypeError
Throws(items) == \E i \in 1..Len(items) : items[i] = Null

\* the array handed to the functions, reversed in place by them
DataReversed(items) == [i \in 1..Len(items) |-> items[Len(items) + 1 - i]]

\* the array handed to the functions, after they returned: _.groupBy, map
\* and filter build new arrays and sort() sorts the array map() built
DataAfterRender(items) == items

\* the graphs are rendered with `items` and the window startDate', endDate'
\* while the clock reads `clock`.  The velocity and the volume rows carry
\* the same weeks in the same order, so the engine's sort, one deterministic
\* algorithm, permutes both alike.  A TypeError ends the render: nothing is
\* returned and nothing is shown.
Render(items, clock) ==
    /\ now' = clock
    /\ UNCHANGED <<backendVars, clientVars>>
    /\ IF Throws(items)
       THEN /\ threw' = TRUE
            /\ allWeeklyVelocityData' = <<>>
            /\ weeklyVelocityData' = <<>>
            /\ weeklyVolumeData' = <<>>
            /\ activityVolumeData' = <<>>
       ELSE /\ threw' = FALSE
            /\ \E p \in SortPermutations(VelocityRows(items, clock)) :
                  /\ allWeeklyVelocityData' = Sorted(VelocityRows(items, clock), p)
                  /\ weeklyVolumeData' = Sorted(VolumeRows(items, clock), p)
            /\ weeklyVelocityData' =
                  WindowFilter(allWeeklyVelocityData', startDate', endDate', clock)
            /\ activityVolumeData' \in calculateWeeklyVolumeActivity(items, clock)

\* the panel passes a list with one more record to the graphs
Receive(r) ==
    /\ Len(data) < MaxRecords
    /\ data' = DataAfterRender(Append(data, r))
    /\ UNCHANGED <<apiActivity, startDate, endDate>>
    /\ \E clock \in Clocks : clock >= now /\ Render(Append(data, r), clock)

\* the graphs are rendered again, later, with the same list
Rerender ==
    /\ data' = DataAfterRender(data)
    /\ UNCHANGED <<apiActivity, startDate, endDate>>
    /\ \E clock \in Clocks : clock > now /\ Render(data, clock)

Next ==
    \/ \E r \in Records : Receive(r)
    \/ Rerender

Spec == Init /\ [][Next]_vars

\* onSuccess with one more element in the response's workouts list
FetchWorkout(w) ==
    /\ Len(data) < MaxRecords
    /\ LET items == WorkoutsPart(data, apiActivity) \o <<w>>
                        \o ActivitiesPart(data, apiActivity)
       IN /\ data' = DataAfterRender(items)
          /\ UNCHANGED <<apiActivity, startDate, endDate>>
          /\ \E clock \in Clocks : clock >= now /\ Render(items, clock)

\* onSuccess with one more element in the response's activity list
FetchActivity(a) ==
    /\ Len(data) < MaxRecords
    /\ \E clock \in Clocks :
          /\ clock >= now
          /\ LET items == Append(data, processActivity(a, clock))
             IN /\ data' = DataAfterRender(items)
                /\ apiActivity' = Append(apiActivity, a)
                /\ UNCHANGED <<startDate, endDate>>
                /\ Render(items, clock)

\* handleDateChange: the panel hands another window to the graphs
SetWindow(sd, ed) ==
    /\ <<sd, ed>> # <<startDate, endDate>>
    /\ startDate' = sd
    /\ endDate' = ed
    /\ data' = DataAfterRender(data)
    /\ UNCHANGED apiActivity
    /\ \E clock \in Clocks : clock >= now /\ Render(data, clock)

PanelNext ==
    \/ \E w \in PanelWorkouts : FetchWorkout(w)
    \/ \E a \in RawActivities : FetchActivity(a)
    \/ \E win \in Windows : SetWindow(win[1], win[2])
    \/ Rerender

PanelSpec == Init /\ [][PanelNext]_vars

BackendSpec == Init /\ [][BackendNext]_vars

\* process_api_queue: while True, process_pending_requests, sleep
QueueStep ==
    \/ QueryPending("queue")
    \/ MarkInProgress("queue")
    \/ QueueComplete

\* run_sync_service: while True, process_api_requests, sleep
SyncStep ==
    \/ QueryPending("sync")
    \/ MarkInProgress("sync")
    \/ SyncWait
    \/ SyncFetch
    \/ SyncFetchFails
    \/ SyncComplete
    \/ SyncUpdateRange

\* a handler that was called runs to its return
HandlerStep(h) ==
    \/ ScheduleQuery(h)
    \/ ScheduleCommit(h)
    \/ HandlerReturn(h)
    \/ HandlerDirectCall(h)

\* both background loops keep running, time passes and every handler
\* returns; no client is obliged to call /db/summary again
BackendFairSpec ==
    /\ BackendSpec
    /\ WF_vars(QueueStep)
    /\ WF_vars(SyncStep)
    /\ WF_vars(Tick)
    /\ \A h \in Handlers : WF_vars(HandlerStep(h))

\* ------------------------------------------------- vocabulary of the claims
\* the record has a timestamp moment can parse
Parseable(r) == r.time_start # Absent /\ r.time_start # Invalid

\* the week key a row was built from
KeyOfRow(row) == IF row.week = NaN THEN InvalidDate ELSE row.week \div MinutesPerDay

\* the records of `data` grouped under the key of `row` at the last render
BucketOf(row) ==
    LET InWeek(r) == WeekKey(r, now) = KeyOfRow(row) IN SelectSeq(data, InWeek)

\* a < b on JavaScript numbers
Less(a, b) == a # NaN /\ b # NaN /\ a < b

StrictlyAscending(rows) ==
    \A i \in 1..Len(rows) : \A j \in 1..Len(rows) :
        i < j => Less(rows[i].week, rows[j].week)

RECURSIVE SumCounts(_)
SumCounts(rows) ==
    IF rows = <<>> THEN 0
    ELSE SumCounts(SubSeq(rows, 1, Len(rows) - 1)) + rows[Len(rows)].workoutCount

\* normalized distance > 0 and normalized duration > 0
PassesTest(r) ==
    /\ NormDistance(r) # NaN /\ NormDistance(r) > 0
    /\ NormDuration(r) # NaN /\ NormDuration(r) > 0

RECURSIVE SumDistance(_)
\* sum of the normalized distances (1/10000 km) of a sequence of records
SumDistance(rs) ==
    IF rs = <<>> THEN 0
    ELSE SumDistance(Tail(rs)) + NormDistance(Head(rs))

RECURSIVE SumDuration(_)
\* sum of the normalized durations (minutes) of a sequence of records
SumDuration(rs) ==
    IF rs = <<>> THEN 0
    ELSE SumDuration(Tail(rs)) + NormDuration(Head(rs))

\* ------------------------------------------------------------------ claims

\* C1: the rows of the weekly aggregation are sorted strictly ascending by
\* week, and no two rows have the same week.
C1_SortedNoDuplicates ==
    /\ StrictlyAscending(allWeeklyVelocityData)
    /\ StrictlyAscending(weeklyVolumeData)

\* C2: every row's velocityKmh is a number between 0 and 50 km/h
\* (0 and 5000 hundredths).
C2_VelocityBounded ==
    \A i \in 1..Len(allWeeklyVelocityData) :
        /\ allWeeklyVelocityData[i].velocityKmh # NaN
        /\ allWeeklyVelocityData[i].velocityKmh >= 0
        /\ allWeeklyVelocityData[i].velocityKmh <= 5000

\* C2 witness: a week whose quotient is above 50 km/h (100 km in one hour)
\* was rendered and its row sits at the cap.
C2_Witness ==
    \E i \in 1..Len(allWeeklyVelocityData) :
        LET b == SelectSeq(BucketOf(allWeeklyVelocityData[i]), PassesTest)
        IN /\ b # <<>>
           /\ 6 * SumDistance(b) > 50000 * SumDuration(b)
           /\ allWeeklyVelocityData[i].velocityKmh = 5000

\* C3: every row's volumeKm is a number >= 0, also when a record carries a
\* negative distance or calories.
C3_VolumeNonNegative ==
    \A i \in 1..Len(weeklyVolumeData) :
        weeklyVolumeData[i].volumeKm # NaN /\ weeklyVolumeData[i].volumeKm >= 0

\* C4: the workoutCount of all rows adds up to the number of input records
\* that have a parseable timestamp.
C4_Partition ==
    SumCounts(allWeeklyVelocityData) = Len(SelectSeq(data, Parseable))

\* C5: records whose time_start is missing or unparseable are in no bucket:
\* the output is the output of the input without them.
C5_UnparseableIgnored ==
    /\ allWeeklyVelocityData \in calculateWeeklyVelocity(SelectSeq(data, Parseable), now)
    /\ weeklyVolumeData \in calculateWeeklyVolume(SelectSeq(data, Parseable), now)

\* C6: the normalized distance of a record (in 1/10000 km) is distance/1000
\* when distance is a number above 100, distance itself when it is a number
\* up to 100 (a numeric 0 does not fall back to calories), calories/10000
\* when distance is no number and calories is present, and 0 otherwise.
C6_DistanceNormalization ==
    \A i \in 1..Len(data) :
        LET r == data[i]
        IN NormDistance(r) =
             IF r.distance # Absent
             THEN IF r.distance > 100 THEN 10 * r.distance ELSE 10000 * r.distance
             ELSE IF r.calories # Absent THEN r.calories ELSE 0

\* C6 witness: the input holds a record of exactly 100 (kept as 100 km) and
\* a record with distance 0 and calories (distance stays 0), and was rendered.
C6_Witness ==
    /\ \E i \in 1..Len(data) :
          data[i].distance = 100 /\ NormDistance(data[i]) = 1000000
    /\ \E i \in 1..Len(data) :
          /\ data[i].distance = 0 /\ data[i].calories = 2000
          /\ NormDistance(data[i]) = 0
    /\ Len(allWeeklyVelocityData) = 1

\* C7: the normalized duration of a record (in minutes) is duration whenever
\* duration is present, the value 0 included; time_end - time_start when
\* duration is absent and both timestamps are present; 0 otherwise.
C7_DurationNormalization ==
    \A i \in 1..Len(data) :
        LET r == data[i]
        IN NormDuration(r) =
             IF r.duration # Absent THEN r.duration
             ELSE IF r.time_start # Absent /\ r.time_end # Absent
                  THEN Diff(r.time_end, r.time_start)
             ELSE 0

\* C8: a record adds to the totals of its week only if its normalized
\* distance and its normalized duration are both > 0: the velocity of a row
\* is the velocity of its bucket without the records failing the test, and
\* workoutCount counts every record of the bucket, failing ones included.
C8_InclusionRule ==
    \A i \in 1..Len(allWeeklyVelocityData) :
        LET row == allWeeklyVelocityData[i]
            bucket == BucketOf(row)
            passing == SelectSeq(bucket, PassesTest)
            avg == AvgVelocity(SumDistance(passing), SumDuration(passing))
        IN /\ row.velocityKmh = ToFixed2(avg[1], avg[2])
           /\ row.workoutCount = Len(bucket)

\* C8 witness: a rendered week holds a record that passes and a record whose
\* time_end is before its time_start; the row counts both and its velocity
\* is that of the passing record alone.
C8_Witness ==
    \E i \in 1..Len(allWeeklyVelocityData) :
        LET row == allWeeklyVelocityData[i]
            bucket == BucketOf(row)
        IN /\ row.workoutCount = 2
           /\ row.velocityKmh = 1000
           /\ \E j \in 1..Len(bucket) :
                 /\ bucket[j].duration = Absent
                 /\ bucket[j].time_end # Absent
                 /\ NormDuration(bucket[j]) # NaN
                 /\ NormDuration(bucket[j]) < 0
                 /\ NormDistance(bucket[j]) > 0

\* C9: the velocityKmh of a week (in hundredths, after toFixed(2)) is
\* totalDistance / totalDurationHours when totalDurationHours > 0, 50 when
\* that quotient is above 50, and 0 when totalDurationHours is 0; no week of
\* the input is dropped.
C9_WeeklyVelocity ==
    /\ \A i \in 1..Len(allWeeklyVelocityData) :
          LET row == allWeeklyVelocityData[i]
              bucket == BucketOf(row)
              totalDistance == TotalDistance(bucket)
              totalDurationHours == TotalDurationHours(bucket)
          IN IF totalDurationHours > 0
             THEN IF 6 * totalDistance > 50000 * totalDurationHours
                  THEN row.velocityKmh = 5000
                  ELSE row.velocityKmh =
                         ToFixed2(6 * totalDistance, 1000 * totalDurationHours)
             ELSE row.velocityKmh = 0
    /\ \A j \in 1..Len(data) :
          \E i \in 1..Len(allWeeklyVelocityData) :
              KeyOfRow(allWeeklyVelocityData[i]) = WeekKey(data[j], now)

\* C9 witness: a rendered week with a positive total duration whose quotient
\* is below the cap and not a multiple of 0.01 (20 km in 90 min: 13.33).
C9_Witness ==
    \E i \in 1..Len(allWeeklyVelocityData) :
        LET bucket == BucketOf(allWeeklyVelocityData[i])
        IN /\ TotalDistance(bucket) = 200000
           /\ TotalDurationHours(bucket) = 90
           /\ allWeeklyVelocityData[i].velocityKmh = 1333

\* C10: the volumeKm of a week is the sum of the normalized distances of the
\* velocity computation over all records of the bucket: distance 500 gives
\* 0.50 and calories 2000 alone give 0.20.
C10_VolumeUsesNormalizedDistance ==
    \A i \in 1..Len(weeklyVolumeData) :
        weeklyVolumeData[i].volumeKm =
            ToFixed2(SumDistance(BucketOf(weeklyVolumeData[i])), 10000)

\* `row` is one of `rows`
HasRow(rows, row) == \E i \in 1..Len(rows) : rows[i] = row

\* `sub` is `full` with some elements left out, the others in their order
IsSubsequence(sub, full) ==
    \E f \in [1..Len(sub) -> 1..Len(full)] :
        /\ \A i \in 1..Len(sub) : sub[i] = full[f[i]]
        /\ \A i \in 1..Len(sub) : \A j \in 1..Len(sub) : i < j => f[i] < f[j]

\* C11: when a window is supplied, the output holds exactly the rows of
\* the aggregation whose week lies in [startDate, endDate], both bounds
\* included; every other row is dropped.
C11_WindowInclusive ==
    (startDate # Absent /\ endDate # Absent /\ ~threw) =>
        /\ \A i \in 1..Len(allWeeklyVelocityData) :
              LET row == allWeeklyVelocityData[i]
              IN HasRow(weeklyVelocityData, row) <=>
                    /\ row.week # NaN
                    /\ startDate <= row.week
                    /\ row.week <= endDate
        /\ \A i \in 1..Len(weeklyVelocityData) :
              HasRow(allWeeklyVelocityData, weeklyVelocityData[i])

\* C11 witness: a window whose two bounds are the week of a row; that row
\* is kept and another row is dropped.
C11_Witness ==
    /\ ~threw
    /\ \E i \in 1..Len(weeklyVelocityData) :
          /\ weeklyVelocityData[i].week = startDate
          /\ weeklyVelocityData[i].week = endDate
    /\ Len(weeklyVelocityData) < Len(allWeeklyVelocityData)

\* C12: the window is applied after the aggregation: the windowed output is
\* a subsequence of the unwindowed output, and every surviving row has the
\* count and the velocity of its whole bucket, records dated outside the
\* window included.
C12_FilterAfterAggregation ==
    ~threw =>
        /\ IsSubsequence(weeklyVelocityData, allWeeklyVelocityData)
        /\ \A i \in 1..Len(weeklyVelocityData) :
              LET row == weeklyVelocityData[i]
                  bucket == BucketOf(row)
                  avg == AvgVelocity(TotalDistance(bucket),
                                     TotalDurationHours(bucket))
              IN /\ row.workoutCount = Len(bucket)
                 /\ row.velocityKmh = ToFixed2(avg[1], avg[2])

\* C12 witness: a row survives the window while a record of its bucket is
\* dated after endDate, and another row was dropped.
C12_Witness ==
    /\ ~threw
    /\ endDate # Absent
    /\ Len(weeklyVelocityData) < Len(allWeeklyVelocityData)
    /\ \E i \in 1..Len(weeklyVelocityData) :
          LET bucket == BucketOf(weeklyVelocityData[i])
          IN \E j \in 1..Len(bucket) :
                /\ Parseable(bucket[j])
                /\ bucket[j].time_start > endDate
                /\ weeklyVelocityData[i].workoutCount = Len(bucket)

\* C13: the aggregation is deterministic: an invocation with the same input
\* sequence and the same window as the one before returns the same output,
\* whatever the time at which it runs.
C13_Deterministic ==
    [][(data' = data /\ startDate' = startDate /\ endDate' = endDate)
          => /\ allWeeklyVelocityData' = allWeeklyVelocityData
             /\ weeklyVelocityData' = weeklyVelocityData]_vars

\* C14: the aggregation never raises an error because of a malformed
\* element of the input (a null element included): a result is returned.
C14_NeverThrows == threw = FALSE

\* C15: an empty input gives an empty sequence of rows, and no error.
C15_EmptyInput ==
    data = <<>> =>
        /\ ~threw
        /\ allWeeklyVelocityData = <<>>
        /\ weeklyVelocityData = <<>>
        /\ weeklyVolumeData = <<>>
        /\ activityVolumeData = <<>>

\* C15 witness: the graphs were rendered with an empty list, later than at
\* the start and with a window.
C15_Witness ==
    /\ data = <<>>
    /\ now > Clock0
    /\ startDate # Absent
    /\ allWeeklyVelocityData = <<>>

\* the weighted formula of the activity-shaped variant, in hundredths:
\* (high*15 + medium*10 + low*5) / (high + medium + low), 0 when the
\* denominator is not positive
WeightedVelocity(a) ==
    LET high == OrZero(a.high)
        medium == OrZero(a.medium)
        low == OrZero(a.low)
    IN IF high + medium + low > 0
       THEN ToFixed2(high * 15 + medium * 10 + low * 5, high + medium + low)
       ELSE 0

\* C16: for an activity-shaped record (high, medium and low minutes, no
\* distance and duration fields) the velocity is the weighted formula: a
\* week holding one such record shows that velocity.
C16_ActivityWeightedVelocity ==
    ~threw =>
        \A i \in 1..Len(apiActivity) :
            LET rec == ActivitiesPart(data, apiActivity)[i]
            IN \A j \in 1..Len(allWeeklyVelocityData) :
                  BucketOf(allWeeklyVelocityData[j]) = <<rec>> =>
                      allWeeklyVelocityData[j].velocityKmh =
                          WeightedVelocity(apiActivity[i])

Weeks(rows) == {rows[i].week : i \in 1..Len(rows)}

\* C18: one week-key rule across the pipeline: for the same records and the
\* same window the volume series and the velocity series put every record
\* in the same week and hold the same set of weeks.
C18_OneWeekKeyRule ==
    ~threw =>
        /\ Weeks(activityVolumeData) = Weeks(weeklyVelocityData)
        /\ Weeks(weeklyVolumeData) = Weeks(weeklyVelocityData)

\* the ids of the pending or in_progress requests of a data type (one
\* user, one date range)
ActiveRequests(dt) ==
    {i \in 1..Len(api_requests) :
        /\ api_requests[i].endpoint = dt
        /\ api_requests[i].status \in {"pending", "in_progress"}}

\* C19: schedule_request never creates a duplicate: in every reachable
\* state, concurrent /db/summary handlers included, at most one APIRequest
\* of a given user, data type and date range is pending or in_progress.
C19_NoDuplicateRequest ==
    \A dt \in Endpoints : Cardinality(ActiveRequests(dt)) <= 1

\* a status is kept or moves one step along pending -> in_progress ->
\* completed | failed
LegalMove(old, new) ==
    \/ old = new
    \/ <<old, new>> \in {<<"pending", "in_progress">>,
                         <<"in_progress", "completed">>,
                         <<"in_progress", "failed">>}

\* C20: the status of an APIRequest only moves pending -> in_progress ->
\* completed or pending -> in_progress -> failed, completed and failed are
\* terminal, and a request is completed, and its date range complete, only
\* after its data was fetched and stored.
C20_StatusLifecycle ==
    /\ [](\A i \in 1..Len(api_requests) :
             api_requests[i].status = "completed" => i \in fetched)
    /\ [](\A dt \in date_range_status :
             \E i \in fetched : api_requests[i].endpoint = dt)
    /\ [][\A i \in 1..Len(api_requests) :
             LegalMove(api_requests[i].status, api_requests'[i].status)]_vars

\* C21: every scheduled request is eventually satisfied: with both
\* background processors running, a data type for which an APIRequest was
\* created eventually has its date range marked complete, also after a
\* fetch failed.
C21_EventuallyComplete ==
    \A dt \in Endpoints :
        (\E i \in 1..Len(api_requests) : api_requests[i].endpoint = dt)
            ~> (dt \in date_range_status)

\* C22: every call of the Vital API by the backend comes after
\* RateLimiter.wait: when a call is made, the call before it is at least
\* min_interval = 60 / requests_per_minute seconds back.
C22_RateLimited == last_gap >= MinInterval

\* C23: fetchDataWithDbFallback calls the direct API (fetchSummaryData) only
\* when the database endpoint answered with a status that is not OK or the
\* request to it failed: in every call the last fetch made, a database
\* endpoint that answered OK means that fetchSummaryData was not called.
C23_DirectOnlyAfterDbFailure ==
    \A k \in 1..Len(fetchTrace) :
        Ok(fetchTrace[k].db) => fetchTrace[k].directCalls = 0

\* C24: the request log holds at most 10 entries, newest first, and they are
\* the most recently started requests: with n requests started so far, the
\* log holds min(n, 10) entries and its k-th entry is request n - k + 1.
C24_LogNewestTen ==
    /\ Len(apiRequests) <= 10
    /\ Len(apiRequests) = IF started < 10 THEN started ELSE 10
    /\ \A k \in 1..Len(apiRequests) : apiRequests[k].timestamp = started - k + 1

\* more requests were started than the log holds, and data fetches, the
\* fallback fetch and download attempts are among the entries kept
C24_Witness ==
    /\ started > 10
    /\ Len(apiRequests) = 10
    /\ {"db_workouts", "summary", "download_dates"}
          \subseteq {apiRequests[k].url : k \in 1..Len(apiRequests)}

\* the answer of the j-th endpoint of the download list
AnswerOf(j) == Response(backend, DownloadEndpoints[j])

\* C25: downloadUserData tries its four endpoints in list order, moves on
\* after a response that is not OK or has an empty body (null, [], {}),
\* stops at the first endpoint with non-empty data and makes at most four
\* requests: the i-th request goes to the i-th endpoint after i - 1
\* failures, the endpoint whose data is downloaded is the first one with
\* non-empty data and the last one asked, and a download without data has
\* asked all four.
C25_DownloadInOrder ==
    /\ download.made <= 4
    /\ download.pc = "loop" => download.made = download.i - 1
    /\ download.pc = "await" => download.made = download.i
    /\ download.pc \in {"loop", "await"} =>
          \A j \in 1..(download.i - 1) : AnswerOf(j) # "data"
    /\ download.successfulData # 0 =>
          /\ AnswerOf(download.successfulData) = "data"
          /\ download.made = download.successfulData
          /\ \A j \in 1..(download.successfulData - 1) : AnswerOf(j) # "data"
    /\ (download.pc \in {"file", "idle"} /\ download.made > 0
           /\ download.successfulData = 0) =>
          /\ download.made = 4
          /\ \A j \in 1..4 : AnswerOf(j) # "data"

\* a download that ended with the data of the fourth endpoint, after a
\* response that was not OK, an empty object and the body null
C25_Witness ==
    /\ download.pc = "idle"
    /\ download.successfulData = 4
    /\ AnswerOf(1) = "error"
    /\ AnswerOf(2) = "empty"
    /\ AnswerOf(3) = "null"

\* C26: every invocation of downloadUserData terminates with isDownloading
\* false: the flag is false whenever no download runs, a raised flag is
\* lowered again, and the invocation that found no user made no request.
C26_DownloadEnds ==
    /\ [](download.pc = "idle" => ~isDownloading)
    /\ []((toast = "No user selected" /\ download.pc = "idle") => download.made = 0)
    /\ isDownloading ~> ~isDownloading

\* a download returned after creating the file had thrown
C26_Witness ==
    /\ toast = "Download error"
    /\ download.pc = "idle"
    /\ download.successfulData # 0
    /\ ~isDownloading

====
